---- MODULE Spec2Model ----
(***************************************************************************)
(* hardpotato: script generation for the PalmSens EmStat Pico (the         *)
(* millivolt/millisecond dialect, emstatpico.py) and the technique         *)
(* dispatcher (potentiostat.py).                                           *)
(*                                                                         *)
(* Numbers.  A physical value (V, s, V/s) is a decimal fraction with four  *)
(* places, held as the integer count of tenths of a milli-unit: 0.2 V is   *)
(* 2000, -1.7 V is -17000, 0.0019 V is 19.  The caller passes the double    *)
(* nearest to the fraction; comparisons of two such doubles agree with the *)
(* comparisons of the fractions, and int(v*1000) is the truncation toward  *)
(* zero of the double product (see int1000).                               *)
(*                                                                         *)
(* Text.  A program text is the sequence of its lines, a line the sequence *)
(* of its blank-separated words; 'a\nb c\n\n' is << <<"a">>, <<"b","c">>,  *)
(* <<>> >>.  Leading tabs and trailing blanks of a line are not kept.      *)
(*                                                                         *)
(* emstatpico.py is read with `validate` of class CV (line 75) at the      *)
(* indentation of its sibling methods.                                     *)
(***************************************************************************)
EXTENDS Integers, Sequences, FiniteSets, TLC

VARIABLES
    tech,   \* the emstatpico technique object of the run, or NoTech
    base,   \* tech.text as the constructor left it (history)
    call,   \* the last call on the translator: operation, arguments, outcome
    inst,   \* the SetupInstrument object, or NoInst
    obj,    \* the potentiostat.Technique object, or NoObj
    dcall,  \* the last call on the dispatcher: operation, arguments, outcome
    pc,     \* where run() stands
    log,    \* what the current run did to its collaborators, in order (history)
    run,    \* the current run: obj as run() found it, the exception run() raised
    runs    \* run() calls so far

picoVars == <<tech, base, call>>

dispVars == <<inst, obj, dcall, pc, log, run, runs>>

vars == <<tech, base, call, inst, obj, dcall, pc, log, run, runs>>

(***************************************************************************)
(* Bounds and input sets                                                   *)
(***************************************************************************)
MaxSweeps == 2

\* E_min - 0.001, E_min, -0.2, -0.0019, 0.2, 1.001, E_max, E_max + 0.001
PotentialInputs == {-17010, -17000, -2000, -19, 2000, 10010, 20000, 20010}
\* the further potentials of a CV: Ev1, Ev2, Efin
Vertex1Inputs == {-17010, 2000, 10010, 20000}
Vertex2Inputs == {-17000, -2000, 20010}
FinalInputs == {-17010, -2000, -19, 20000}
\* 0.1 V/s
RateInputs == {1000}
\* 0.001 V, 0.0019 V
StepInputs == {10, 19}
\* 0.001 s, 0.0105 s
IntervalInputs == {10, 105}
\* 2 s
DurationInputs == {20000}
SweepInputs == 0..MaxSweeps

MaxRuns == 2

\* a CHI model, the EmStat Pico, and a model the library does not know
Models == {"chi760e", "emstatpico", "gamry"}
\* port=None (to be detected) and a named port
Ports == {"None", "COM3"}
\* text='' (the default) and a one-line script
TextInputs == {<<>>, << <<"e">> >>}
HeaderInputs == {"my header"}
TechniqueClasses == {"CV", "LSV", "IT", "CA", "OCP", "NPV", "EIS"}
\* the exceptions the serial transport raises
TransportFailures == {"SerialException", "SerialTimeoutException"}
\* the responses it delivers: per frame, the tags of its lines
Responses == {<<>>, <<{"a", "p", "c"}>>, <<{"a", "p", "c"}, {"a", "p", "c"}>>}

(***************************************************************************)
(* emstatpico.py: class Info                                               *)
(***************************************************************************)
E_min == -17000
E_max == 20000

\* Info.limits raises when val is outside [low, high]; the result is the
\* sequence of the labels raised for (empty: no exception).
\* (mutant: the bounds excluded)
limits_open(val, low, high, label) ==
    IF val <= low \/ val >= high THEN <<label>> ELSE <<>>

limits(val, low, high, label) ==
    IF val < low \/ val > high THEN <<label>> ELSE <<>>

\* The double product v*1000 falls just below the integer v/10 (in absolute
\* value) for these v, and for no other v with |v| <= 2.001: the odd whole
\* milli-units between 1.000 and 1.024.  1.001*1000 is 1000.9999999999999.
product_short(v) ==
    LET a == IF v >= 0 THEN v ELSE -v
    IN  a % 10 = 0 /\ a \div 10 > 1000 /\ a \div 10 < 1024 /\ (a \div 10) % 2 = 1

\* int(v*1000) for |v| <= 2.001: int() truncates the double toward zero
int1000(v) ==
    LET a == IF v >= 0 THEN v ELSE -v
        n == IF product_short(v) THEN (a \div 10) - 1 ELSE a \div 10
    IN  IF v >= 0 THEN n ELSE -n

\* the literal str(n) + 'm'
lit(n) == ToString(n) \o "m"

NoTech == [kind |-> "none"]
NoInst == [model_pstat |-> "none"]
NoObj == [technique |-> "none"]
NoRun == [start |-> NoObj, raised |-> "none"]
NoDCall == [op |-> "none", args |-> <<>>, raised |-> "none", printed |-> <<>>,
            before |-> NoObj]

\* self after the assignments self.a = new[a], for each a in DOMAIN new
SetAttrs(self, new) ==
    [a \in DOMAIN self \cup DOMAIN new |-> IF a \in DOMAIN new THEN new[a] ELSE self[a]]

\* What a call returns: the exception it raised ("none": it returned), the
\* label of an out-of-range exception, and the object as the call left it.
Returned(self) == [raised |-> "none", label |-> "", self |-> self]
Raised(exc, label, self) == [raised |-> exc, label |-> label, self |-> self]

(***************************************************************************)
(* emstatpico.py: class CV                                                 *)
(***************************************************************************)
Pico_CV_validate(Eini, Ev1, Ev2, Efin) ==
    limits(Eini, E_min, E_max, "Eini") \o limits(Ev1, E_min, E_max, "Ev1")
        \o limits(Ev2, E_min, E_max, "Ev2") \o limits(Efin, E_min, E_max, "Efin")

Pico_CV_body(self) ==
    << <<"meas_loop_cv", "p", "c", lit(self.Eini), lit(self.Ev1), lit(self.Ev2),
         lit(self.dE), lit(self.sr), "nscans(" \o ToString(self.nSweeps - 1) \o ")">>,
       <<"pck_start">>, <<"timer_get", "a">>, <<"pck_add", "a">>, <<"pck_add", "p">>,
       <<"pck_add", "c">>, <<"pck_end">>, <<"endloop">>, <<"on_finished:">>,
       <<"cell_off">>, <<>> >>

Pico_CV_init(Eini, Ev1, Ev2, Efin, sr, dE, nSweeps) ==
    LET s0 == [kind |-> "CV", Eini |-> int1000(Eini), Ev1 |-> int1000(Ev1),
               Ev2 |-> int1000(Ev2), Efin |-> int1000(Efin), sr |-> int1000(sr),
               dE |-> int1000(dE), nSweeps |-> nSweeps, text |-> <<>>]
        err == Pico_CV_validate(Eini, Ev1, Ev2, Efin)
        ini == << <<"e">>, <<"var", "c">>, <<"var", "p">>, <<"var", "a">> >>
        pre_body == << <<"set_pgstat_mode", "4">>,
                       <<"set_autoranging", "ba", "100n", "5m">>,
                       <<"set_e", lit(s0.Eini)>>, <<"cell_on">>, <<"wait", "2">>,
                       <<"timer_start">> >>
        body == Pico_CV_body(s0)
    IN  IF err # <<>> THEN Raised("Exception", Head(err), s0)
        ELSE Returned(SetAttrs(s0, [ini |-> ini, pre_body |-> pre_body, body |-> body,
                       text |-> ini \o pre_body \o body]))

\* The preamble of every bipot method: channel 1 in polystat mode at E, then
\* channel 0 restored at E0.
bipot_pre_body(E, E0) ==
    << <<"var", "b">>, <<"set_pgstat_chan", "1">>, <<"set_pgstat_mode", "5">>,
       <<"set_poly_we_mode", "0">>, <<"set_e", lit(E)>>,
       <<"set_autoranging", "ba", "100n", "5m">>, <<"set_pgstat_chan", "0">>,
       <<"set_pgstat_mode", "2">>, <<"set_autoranging", "ba", "100n", "5m">>,
       <<"set_e", lit(E0)>>, <<"timer_start">>, <<"cell_on">> >>

\* The packet of a bipot loop and the lines that end the program.
bipot_packet ==
    << <<"pck_start">>, <<"timer_get", "a">>, <<"pck_add", "a">>, <<"pck_add", "p">>,
       <<"pck_add", "c">>, <<"pck_add", "b">>, <<"pck_end">>, <<"endloop">>,
       <<"on_finished:">>, <<"cell_off">>, <<>> >>

Pico_CV_bipot(self, E) ==
    LET err == limits(E, E_min, E_max, "E2")
        E2 == int1000(E)
        pre_body == bipot_pre_body(E2, self.Eini)
        body == << <<"meas_loop_cv", "p", "c", lit(self.Eini), lit(self.Ev1),
                     lit(self.Ev2), lit(self.dE), lit(self.sr),
                     "nscans(" \o ToString(self.nSweeps) \o ")", "poly_we(1", "b)">> >>
                \o bipot_packet
    IN  IF err # <<>> THEN Raised("Exception", Head(err), self)
        ELSE Returned(SetAttrs(self, [pre_body |-> pre_body, body |-> body,
                       text |-> self.ini \o pre_body \o body]))

(***************************************************************************)
(* emstatpico.py: class CA                                                 *)
(***************************************************************************)
Pico_CA_validate(Estep) == limits(Estep, E_min, E_max, "Estep")

\* (mutant: the program is assembled before validate is called)
Pico_CA_init_late(Estep, dt, ttot) ==
    LET s0 == [kind |-> "CA", Estep |-> int1000(Estep), dt |-> int1000(dt),
               ttot |-> int1000(ttot), text |-> <<>>]
        ini == << <<"e">>, <<"var", "p">>, <<"var", "c">>, <<"var", "a">> >>
        pre_body == << <<"set_e", lit(s0.Estep)>>, <<"cell_on">>, <<"timer_start">> >>
        body == << <<"meas_loop_ca", "p", "c", lit(s0.Estep), lit(s0.dt), lit(s0.ttot)>>,
                   <<"endloop">> >>
        s1 == SetAttrs(s0, [ini |-> ini, pre_body |-> pre_body, body |-> body,
                            text |-> ini \o pre_body \o body])
        err == Pico_CA_validate(Estep)
    IN  IF err # <<>> THEN Raised("Exception", Head(err), s1) ELSE Returned(s1)

Pico_CA_init(Estep, dt, ttot) ==
    LET s0 == [kind |-> "CA", Estep |-> int1000(Estep), dt |-> int1000(dt),
               ttot |-> int1000(ttot), text |-> <<>>]
        err == Pico_CA_validate(Estep)
        ini == << <<"e">>, <<"var", "p">>, <<"var", "c">>, <<"var", "a">> >>
        pre_body == << <<"set_pgstat_mode", "3">>,
                       <<"set_autoranging", "ba", "100n", "5m">>,
                       <<"set_e", lit(s0.Estep)>>, <<"cell_on">>, <<"timer_start">> >>
        body == << <<"meas_loop_ca", "p", "c", lit(s0.Estep), lit(s0.dt), lit(s0.ttot)>>,
                   <<"pck_start">>, <<"timer_get", "a">>, <<"pck_add", "a">>,
                   <<"pck_add", "p">>, <<"pck_add", "c">>, <<"pck_end">>, <<"endloop">>,
                   <<"on_finished:">>, <<"cell_off">>, <<>> >>
    IN  IF err # <<>> THEN Raised("Exception", Head(err), s0)
        ELSE Returned(SetAttrs(s0, [ini |-> ini, pre_body |-> pre_body, body |-> body,
                       text |-> ini \o pre_body \o body]))

Pico_CA_bipot(self, E) ==
    LET err == limits(E, E_min, E_max, "E2")
        E2 == int1000(E)
        pre_body == bipot_pre_body(E2, self.Estep)
        body == << <<"meas_loop_ca", "p", "c", lit(self.Estep), lit(self.dt),
                     lit(self.ttot), "poly_we(1", "b)">> >>
                \o bipot_packet
    IN  IF err # <<>> THEN Raised("Exception", Head(err), self)
        ELSE Returned(SetAttrs(self, [pre_body |-> pre_body, body |-> body,
                       text |-> self.ini \o pre_body \o body]))

(***************************************************************************)
(* emstatpico.py: class LSV                                                *)
(***************************************************************************)
Pico_LSV_validate(Eini, Efin) ==
    limits(Eini, E_min, E_max, "Eini") \o limits(Efin, E_min, E_max, "Efin")

Pico_LSV_init(Eini, Efin, sr, dE) ==
    LET s0 == [kind |-> "LSV", Eini |-> int1000(Eini), Efin |-> int1000(Efin),
               sr |-> int1000(sr), dE |-> int1000(dE), text |-> <<>>]
        err == Pico_LSV_validate(Eini, Efin)
        ini == << <<"e">>, <<"var", "c">>, <<"var", "p">>, <<"var", "a">> >>
        pre_body == << <<"set_pgstat_mode", "4">>,
                       <<"set_autoranging", "ba", "100n", "5m">>,
                       <<"set_e", lit(s0.Eini)>>, <<"cell_on">>, <<"timer_start">> >>
        body == << <<"meas_loop_lsv", "p", "c", lit(s0.Eini), lit(s0.Efin),
                     lit(s0.dE), lit(s0.sr)>>,
                   <<"pck_start">>, <<"timer_get", "a">>, <<"pck_add", "a">>,
                   <<"pck_add", "p">>, <<"pck_add", "c">>, <<"pck_end">>, <<"endloop">>,
                   <<"on_finished:">>, <<"cell_off">>, <<>> >>
    IN  IF err # <<>> THEN Raised("Exception", Head(err), s0)
        ELSE Returned(SetAttrs(s0, [ini |-> ini, pre_body |-> pre_body, body |-> body,
                       text |-> ini \o pre_body \o body]))

\* The names LSV.bipot can read: its parameters.  It binds no `info` (CV.bipot
\* and CA.bipot start with info = Info()), and the module has no global `info`.
LSV_bipot_names == {"self", "E", "sens"}

Pico_LSV_bipot(self, E) ==
    LET err == limits(E, E_min, E_max, "E2")
        E2 == int1000(E)
        pre_body == bipot_pre_body(E2, self.Eini)
        body == << <<"meas_loop_lsv", "p", "c", lit(self.Eini), lit(self.Efin),
                     lit(self.dE), lit(self.sr), "poly_we(1", "b)">> >>
                \o bipot_packet
    IN  IF "info" \notin LSV_bipot_names THEN Raised("NameError", "", self)
        ELSE IF err # <<>> THEN Raised("Exception", Head(err), self)
        ELSE Returned(SetAttrs(self, [pre_body |-> pre_body, body |-> body,
                       text |-> self.ini \o pre_body \o body]))

(***************************************************************************)
(* emstatpico.py: class OCP                                                *)
(***************************************************************************)
\* OCP.validate checks no limit.
Pico_OCP_validate(ttot, dt) == <<>>

Pico_OCP_init(ttot, dt) ==
    LET dt_ == int1000(dt)
        ttot_ == int1000(ttot)
        s0 == [kind |-> "OCP", text |-> <<>>]
        err == Pico_OCP_validate(ttot_, dt_)
        ini == << <<"e">>, <<"var", "p">>, <<"var", "a">> >>
        pre_body == << <<"set_pgstat_mode", "4">>, <<"cell_off">>, <<"timer_start">> >>
        body == << <<"meas_loop_ocp", "p", lit(dt_), lit(ttot_)>>,
                   <<"pck_start">>, <<"timer_get", "a">>, <<"pck_add", "a">>,
                   <<"pck_add", "p">>, <<"pck_end">>, <<"endloop">>,
                   <<"on_finished:">>, <<"cell_off">>, <<>> >>
    IN  IF err # <<>> THEN Raised("Exception", Head(err), s0)
        ELSE Returned(SetAttrs(s0, [ini |-> ini, pre_body |-> pre_body, body |-> body,
                       text |-> ini \o pre_body \o body]))

\* tech.bipot(E, sens) by the class of tech; class OCP defines no bipot.
Pico_bipot(self, E) ==
    CASE self.kind = "CV" -> Pico_CV_bipot(self, E)
      [] self.kind = "CA" -> Pico_CA_bipot(self, E)
      [] self.kind = "LSV" -> Pico_LSV_bipot(self, E)
      [] OTHER -> Raised("AttributeError", "", self)

(***************************************************************************)
(* potentiostat.py                                                         *)
(***************************************************************************)
\* (mutant: the tag of the base class listed too)
BIPOT_TECHNIQUES_any == {"CV", "CA", "IT", "LSV", "NPV", "Technique"}

BIPOT_TECHNIQUES == {"CV", "CA", "IT", "LSV", "NPV"}

\* "chi" in model (the constructors) and model[0:3] == 'chi' (writeToFile, run)
contains_chi(model) == model \in {"chi760e"}
startswith_chi(model) == model \in {"chi760e"}

\* What a dispatcher call returns: as Returned and Raised, with the lines it
\* printed.
DReturned(self, printed) ==
    [raised |-> "none", label |-> "", self |-> self, printed |-> printed]
DRaised(exc, label, self) ==
    [raised |-> exc, label |-> label, self |-> self, printed |-> <<>>]

\* A new instance has no attribute.
NewObject == [a \in {} |-> ""]

SetupInstrument_init(model, port) == [model_pstat |-> model, port_ |-> port]

\* Technique.__init__.  made (history) is what the caller constructed: the
\* class, the header it passed, and whether text is the text of a technique
\* object that a constructor validated and generated.
Technique_init(self, instrument, text, fileName, made) ==
    SetAttrs(self, [model_pstat |-> instrument.model_pstat, port |-> instrument.port_,
                    fileName |-> fileName, text |-> text, header |-> "",
                    technique |-> "Technique", bpot |-> FALSE, tech |-> NoTech,
                    data |-> <<>>, made |-> made])

\* The macro generators of module chi are not among the sources: a chi
\* technique object is its kind and an opaque macro text.
Chi_init(kind) == Returned([kind |-> "Chi" \o kind, text |-> << <<"macro", kind>> >>])

\* The body every technique class shares: self.header and self.technique are
\* set (sets_header: NPV sets no header), then self.model_pstat is read to
\* choose the generator, and Technique.__init__ runs last.  chi_tech is the
\* outcome of the class's chi generator, pico_tech the outcome of its
\* emstatpico generator (has_pico: the class has an emstatpico branch); a
\* generator is called only on its branch.
Subclass_init(kind, sets_header, has_pico, instrument, chi_tech, pico_tech, fileName, header) ==
    LET s1 == SetAttrs(NewObject,
                       IF sets_header THEN [header |-> header, technique |-> kind]
                       ELSE [technique |-> kind])
        t == IF contains_chi(s1.model_pstat) THEN chi_tech ELSE pico_tech
    IN  IF "model_pstat" \notin DOMAIN s1
            THEN DRaised("AttributeError", "model_pstat", s1)
        ELSE IF ~contains_chi(s1.model_pstat)
                /\ ~(has_pico /\ s1.model_pstat = "emstatpico")
            THEN DRaised("Exception",
                         "does not have " \o (IF kind = "CA" THEN "IT" ELSE kind), s1)
        ELSE IF t.raised # "none" THEN DRaised(t.raised, t.label, s1)
        ELSE DReturned(Technique_init(SetAttrs(s1, [tech |-> t.self]), instrument,
                                      t.self.text, fileName,
                                      [class |-> kind, header |-> header,
                                       generated |-> TRUE]), <<>>)

\* The technique classes.  p holds the constructor's technique parameters;
\* IT is the step chronoamperometry, class CA of emstatpico.py.
CV_init(instrument, p, fileName, header) ==
    Subclass_init("CV", TRUE, TRUE, instrument, Chi_init("CV"),
                  Pico_CV_init(p.Eini, p.Ev1, p.Ev2, p.Efin, p.sr, p.dE, p.nSweeps),
                  fileName, header)
LSV_init(instrument, p, fileName, header) ==
    Subclass_init("LSV", TRUE, TRUE, instrument, Chi_init("LSV"),
                  Pico_LSV_init(p.Eini, p.Efin, p.sr, p.dE), fileName, header)
IT_init(instrument, p, fileName, header) ==
    Subclass_init("IT", TRUE, TRUE, instrument, Chi_init("IT"),
                  Pico_CA_init(p.Estep, p.dt, p.ttot), fileName, header)
CA_init(instrument, p, fileName, header) ==
    Subclass_init("CA", TRUE, FALSE, instrument, Chi_init("CA"), Returned(NoTech),
                  fileName, header)
OCP_init(instrument, p, fileName, header) ==
    Subclass_init("OCP", TRUE, TRUE, instrument, Chi_init("OCP"),
                  Pico_OCP_init(p.ttot, p.dt), fileName, header)
NPV_init(instrument, p, fileName, header) ==
    Subclass_init("NPV", FALSE, FALSE, instrument, Chi_init("NPV"), Returned(NoTech),
                  fileName, header)
EIS_init(instrument, p, fileName, header) ==
    Subclass_init("EIS", TRUE, FALSE, instrument, Chi_init("EIS"), Returned(NoTech),
                  fileName, header)

\* (mutant: the flag is set before the technique object's bipot is called)
Technique_bipot_early(self, E) ==
    IF self.technique \in BIPOT_TECHNIQUES
    THEN LET r == Pico_bipot(self.tech, E)
         IN  IF r.raised # "none"
             THEN DRaised(r.raised, r.label,
                          SetAttrs(self, [tech |-> r.self, bpot |-> TRUE]))
             ELSE DReturned(SetAttrs(self, [tech |-> r.self, text |-> r.self.text,
                                            bpot |-> TRUE]), <<>>)
    ELSE DReturned(self, <<self.technique \o " does not have bipotentiostat mode">>)

\* Technique.bipot
Technique_bipot(self, E) ==
    IF self.technique \in BIPOT_TECHNIQUES
    THEN LET r == Pico_bipot(self.tech, E)
         IN  IF r.raised # "none"
             THEN DRaised(r.raised, r.label, SetAttrs(self, [tech |-> r.self]))
             ELSE DReturned(SetAttrs(self, [tech |-> r.self, text |-> r.self.text,
                                            bpot |-> TRUE]), <<>>)
    ELSE DReturned(self, <<self.technique \o " does not have bipotentiostat mode">>)

\* Technique.writeToFile: the files it writes
writeToFile(self) ==
    IF startswith_chi(self.model_pstat)
        THEN <<[ev |-> "write", file |-> self.fileName \o ".mcr", text |-> self.text]>>
    ELSE IF self.model_pstat = "emstatpico"
        THEN <<[ev |-> "write", file |-> self.fileName \o ".mscr", text |-> self.text]>>
    ELSE <<>>

\* Technique.plot draws for these tags and only closes the figure otherwise.
plot(self) ==
    IF self.technique \in {"CV", "LSV", "IT", "OCP"}
    THEN <<[ev |-> "plot", technique |-> self.technique, file |-> self.fileName \o ".txt"]>>
    ELSE <<>>

\* run(), lines 110-113: an exception of the serial transport (f, "none" when
\* the call returns) leaves the with block and run(); otherwise run() goes on
\* to next.
\* (mutant: the exception is swallowed and run() goes on)
run_transport_swallow(f, next) == [pc |-> next, raised |-> "none"]

run_transport(f, next) ==
    IF f = "none" THEN [pc |-> next, raised |-> "none"]
    ELSE [pc |-> "failed", raised |-> f]

\* pico_mscript.parse_result_lines is not among the sources: one record per
\* frame of the response, holding the frame's tagged values.
parse_result_lines(result) == [i \in 1..Len(result) |-> [frame |-> i, tags |-> result[i]]]

(***************************************************************************)
(* The translator as a state machine: a caller constructs a technique and  *)
(* may then ask for its bipotentiostat program.                            *)
(***************************************************************************)
NoCall == [op |-> "none", args |-> <<>>, raised |-> "none", label |-> "",
           before |-> NoTech, left |-> NoTech]

Init ==
    /\ tech = NoTech
    /\ base = <<>>
    /\ call = NoCall
    /\ inst = NoInst
    /\ obj = NoObj
    /\ dcall = NoDCall
    /\ pc = "idle"
    /\ log = <<>>
    /\ run = NoRun
    /\ runs = 0

\* A caller constructs one technique; an exception leaves the caller no
\* object.  call.before is the object before the call, call.left the object
\* as the call left it.
Construct(op, args, r) ==
    /\ tech' = IF r.raised = "none" THEN r.self ELSE NoTech
    /\ base' = IF r.raised = "none" THEN r.self.text ELSE <<>>
    /\ call' = [op |-> op, args |-> args, raised |-> r.raised, label |-> r.label,
                before |-> NoTech, left |-> r.self]
    /\ UNCHANGED dispVars

NewCV ==
    /\ call = NoCall
    /\ \E Eini \in PotentialInputs, Ev1 \in Vertex1Inputs, Ev2 \in Vertex2Inputs,
          Efin \in FinalInputs, sr \in RateInputs, dE \in StepInputs,
          nSweeps \in SweepInputs :
        Construct("CV", [Eini |-> Eini, Ev1 |-> Ev1, Ev2 |-> Ev2, Efin |-> Efin,
                         sr |-> sr, dE |-> dE, nSweeps |-> nSweeps],
                  Pico_CV_init(Eini, Ev1, Ev2, Efin, sr, dE, nSweeps))

NewCA ==
    /\ call = NoCall
    /\ \E Estep \in PotentialInputs, dt \in IntervalInputs, ttot \in DurationInputs :
        Construct("CA", [Estep |-> Estep, dt |-> dt, ttot |-> ttot],
                  Pico_CA_init(Estep, dt, ttot))

NewLSV ==
    /\ call = NoCall
    /\ \E Eini, Efin \in PotentialInputs, sr \in RateInputs, dE \in StepInputs :
        Construct("LSV", [Eini |-> Eini, Efin |-> Efin, sr |-> sr, dE |-> dE],
                  Pico_LSV_init(Eini, Efin, sr, dE))

NewOCP ==
    /\ call = NoCall
    /\ \E ttot \in DurationInputs, dt \in IntervalInputs :
        Construct("OCP", [ttot |-> ttot, dt |-> dt], Pico_OCP_init(ttot, dt))

Bipot ==
    /\ tech.kind # "none"
    /\ \E E \in PotentialInputs :
        LET r == Pico_bipot(tech, E)
        IN  /\ tech' = r.self
            /\ call' = [op |-> "bipot", args |-> [E |-> E, kind |-> tech.kind],
                        raised |-> r.raised, label |-> r.label, before |-> tech,
                        left |-> r.self]
    /\ UNCHANGED base
    /\ UNCHANGED dispVars

Next == NewCV \/ NewCA \/ NewLSV \/ NewOCP \/ Bipot

Spec == Init /\ [][Next]_vars

(***************************************************************************)
(* The dispatcher as a state machine: a caller sets the instrument up,     *)
(* constructs one technique, may ask for bipotentiostat mode, and runs it. *)
(* run() is followed through its calls on the collaborators.               *)
(***************************************************************************)
Resting == {"idle", "done", "failed", "aborted"}

\* the default parameters of each class and, for the classes that validate a
\* potential on the EmStat Pico, the same with the first one out of range
ClassParams(kind) ==
    CASE kind = "CV" -> {[Eini |-> E, Ev1 |-> 2000, Ev2 |-> -2000, Efin |-> -2000,
                          sr |-> 1000, dE |-> 10, nSweeps |-> 2] : E \in {-2000, 20010}}
      [] kind = "LSV" -> {[Eini |-> E, Efin |-> 2000, sr |-> 1000, dE |-> 10] :
                          E \in {-2000, 20010}}
      [] kind = "IT" -> {[Estep |-> E, dt |-> 10, ttot |-> 20000] : E \in {2000, 20010}}
      [] kind = "OCP" -> {[ttot |-> 20000, dt |-> 100]}
      [] OTHER -> {[Eini |-> 0]}

Class_init(kind, instrument, p, fileName, header) ==
    CASE kind = "CV" -> CV_init(instrument, p, fileName, header)
      [] kind = "LSV" -> LSV_init(instrument, p, fileName, header)
      [] kind = "IT" -> IT_init(instrument, p, fileName, header)
      [] kind = "CA" -> CA_init(instrument, p, fileName, header)
      [] kind = "OCP" -> OCP_init(instrument, p, fileName, header)
      [] kind = "NPV" -> NPV_init(instrument, p, fileName, header)
      [] kind = "EIS" -> EIS_init(instrument, p, fileName, header)

Setup ==
    /\ inst = NoInst
    /\ \E model \in Models, port \in Ports : inst' = SetupInstrument_init(model, port)
    /\ UNCHANGED <<obj, dcall, pc, log, run, runs>>
    /\ UNCHANGED picoVars

\* Technique(instrument, text, fileName)
NewTechnique ==
    /\ inst # NoInst
    /\ dcall = NoDCall
    /\ \E text \in TextInputs :
        /\ obj' = Technique_init(NewObject, inst, text, "Technique",
                                 [class |-> "Technique", header |-> "",
                                  generated |-> FALSE])
        /\ dcall' = [op |-> "Technique", args |-> [text |-> text], raised |-> "none",
                     printed |-> <<>>, before |-> NoObj]
    /\ UNCHANGED <<inst, pc, log, run, runs>>
    /\ UNCHANGED picoVars

\* CV(instrument, ...), LSV(instrument, ...), ...
NewSubclass ==
    /\ inst # NoInst
    /\ dcall = NoDCall
    /\ \E kind \in TechniqueClasses, header \in HeaderInputs :
        \E p \in ClassParams(kind) :
            LET r == Class_init(kind, inst, p, kind, header)
            IN  /\ obj' = IF r.raised = "none" THEN r.self ELSE NoObj
                /\ dcall' = [op |-> kind, args |-> [p |-> p, header |-> header],
                             raised |-> r.raised, printed |-> <<r.label>>,
                             before |-> NoObj]
    /\ UNCHANGED <<inst, pc, log, run, runs>>
    /\ UNCHANGED picoVars

DispatcherBipot ==
    /\ obj # NoObj
    /\ pc \in Resting
    /\ \E E \in PotentialInputs :
        LET r == Technique_bipot(obj, E)
        IN  /\ obj' = r.self
            /\ dcall' = [op |-> "bipot", args |-> [E |-> E], raised |-> r.raised,
                         printed |-> r.printed, before |-> obj]
    /\ UNCHANGED <<inst, pc, log, run, runs>>
    /\ UNCHANGED picoVars

\* run(), lines 96-99 and 105-107 (message, writeToFile) or 120-121
RunBegin ==
    /\ obj # NoObj
    /\ pc \in Resting
    /\ runs < MaxRuns
    /\ runs' = runs + 1
    /\ log' = writeToFile(obj)
    /\ pc' = IF startswith_chi(obj.model_pstat) \/ obj.model_pstat = "emstatpico"
             THEN "written" ELSE "aborted"
    /\ dcall' = [op |-> "run", args |-> <<>>, raised |-> "none",
                 printed |-> IF pc' = "aborted"
                             THEN <<"No potentiostat selected. Aborting.">>
                             ELSE <<"Starting " \o obj.technique>>
                                  \o (IF obj.bpot
                                      THEN <<"Running in bipotentiostat mode">>
                                      ELSE <<>>),
                 before |-> obj]
    /\ run' = [start |-> obj, raised |-> "none"]
    /\ UNCHANGED <<inst, obj>>
    /\ UNCHANGED picoVars

\* run(), lines 100-104: the CHI program runs the macro, then plot()
RunMacro ==
    /\ pc = "written"
    /\ startswith_chi(obj.model_pstat)
    /\ log' = log \o <<[ev |-> "system", file |-> obj.fileName \o ".mcr"]>> \o plot(obj)
    /\ pc' = "done"
    /\ UNCHANGED <<inst, obj, dcall, run, runs>>
    /\ UNCHANGED picoVars

\* run(), lines 108-112: the port is detected when None, the serial line
\* opened and the script file sent; the transport may raise f.
RunSend ==
    /\ pc = "written"
    /\ obj.model_pstat = "emstatpico"
    /\ \E f \in TransportFailures \cup {"none"} :
        LET r == run_transport(f, "sent")
        IN  /\ pc' = r.pc
            /\ run' = [run EXCEPT !.raised = r.raised]
            /\ log' = log \o (IF f = "none"
                              THEN <<[ev |-> "send", file |-> obj.fileName \o ".mscr"]>>
                              ELSE <<[ev |-> "error", exc |-> f]>>)
            /\ obj' = IF f = "none"
                      THEN [obj EXCEPT !.port = IF @ = "None" THEN "detected" ELSE @]
                      ELSE obj
    /\ UNCHANGED <<inst, dcall, runs>>
    /\ UNCHANGED picoVars

\* run(), line 113: the response is read until its end, or the transport
\* raises f
RunRead ==
    /\ pc = "sent"
    /\ \E f \in TransportFailures \cup {"none"} :
        LET r == run_transport(f, "read")
        IN  /\ pc' = r.pc
            /\ run' = [run EXCEPT !.raised = r.raised]
            /\ \E result \in (IF f = "none" THEN Responses ELSE {<<>>}) :
                log' = log \o (IF f = "none" THEN <<[ev |-> "read", result |-> result]>>
                               ELSE <<[ev |-> "error", exc |-> f]>>)
    /\ UNCHANGED <<inst, obj, dcall, runs>>
    /\ UNCHANGED picoVars

\* run(), line 114
RunDecode ==
    /\ pc = "read"
    /\ obj' = [obj EXCEPT !.data = parse_result_lines(log[Len(log)].result)]
    /\ log' = log \o <<[ev |-> "decode"]>>
    /\ pc' = "decoded"
    /\ UNCHANGED <<inst, dcall, run, runs>>
    /\ UNCHANGED picoVars

\* run(), lines 115-119: save_data.Save, then plot()
RunSave ==
    /\ pc = "decoded"
    /\ log' = log \o <<[ev |-> "save", file |-> obj.fileName \o ".txt",
                        header |-> obj.header, technique |-> obj.technique,
                        bpot |-> obj.bpot, data |-> obj.data]>> \o plot(obj)
    /\ pc' = "done"
    /\ UNCHANGED <<inst, obj, dcall, run, runs>>
    /\ UNCHANGED picoVars

DispatchNext ==
    \/ Setup \/ NewTechnique \/ NewSubclass \/ DispatcherBipot
    \/ RunBegin \/ RunMacro \/ RunSend \/ RunRead \/ RunDecode \/ RunSave

SpecDispatch == Init /\ [][DispatchNext]_vars

(***************************************************************************)
(* Properties of the translator (checked under Spec)                       *)
(***************************************************************************)
Constructors == {"CV", "LSV", "CA", "OCP"}

PotentialFields(op) ==
    CASE op = "CV" -> {"Eini", "Ev1", "Ev2", "Efin"}
      [] op = "LSV" -> {"Eini", "Efin"}
      [] op = "CA" -> {"Estep"}
      [] OTHER -> {}

\* outside [-1.7 V, 2 V]
OutsideEnvelope(v) == v < -17000 \/ v > 20000

LoopOps == {"meas_loop_cv", "meas_loop_ca", "meas_loop_lsv", "meas_loop_ocp"}
LoopIdx(text) == {i \in 1..Len(text) : Len(text[i]) > 0 /\ text[i][1] \in LoopOps}
TheLoop(text) == text[CHOOSE i \in LoopIdx(text) : TRUE]

\* C1: a CV, LSV or CA constructor raises the out-of-range exception if and
\* only if one of its potential fields is below -1.7 V or above 2 V (both
\* bounds are accepted), and the exception names a field that is outside.
C1_RejectsIffOutside ==
    call.op \in {"CV", "LSV", "CA"} =>
        /\ call.raised = "Exception"
            <=> \E f \in PotentialFields(call.op) : OutsideEnvelope(call.args[f])
        /\ call.raised = "Exception" =>
            /\ call.label \in PotentialFields(call.op)
            /\ OutsideEnvelope(call.args[call.label])
        /\ call.raised \in {"Exception", "none"}

\* a CV with Eini = E_min exactly was accepted
C1_Witness ==
    /\ call.op = "CV"
    /\ call.args.Eini = -17000
    /\ call.raised = "none"
    /\ tech.kind = "CV"

\* C2: when validation rejects the parameters of a constructor, the object
\* it leaves holds the empty text and no preamble or loop body, and the caller
\* holds no technique object and no program.
C2_NothingAssembledOnRejection ==
    (/\ call.op \in Constructors
     /\ \E f \in PotentialFields(call.op) : OutsideEnvelope(call.args[f])) =>
        /\ call.raised # "none"
        /\ call.left.text = <<>>
        /\ DOMAIN call.left \cap {"ini", "pre_body", "body"} = {}
        /\ tech = NoTech
        /\ base = <<>>

\* a CA with Estep = E_max + 0.001 was rejected
C2_Witness ==
    /\ call.op = "CA"
    /\ call.args.Estep = 20010
    /\ call.raised = "Exception"
    /\ tech = NoTech

\* tok is the literal of v in milli-units: an integer n within one unit of
\* v/10 (v counts tenths of a milli-unit), followed by m
InMilli(tok, v) ==
    \E n \in {v \div 10, (v \div 10) + 1} :
        /\ tok = ToString(n) \o "m"
        /\ 10 * n - v < 10
        /\ v - 10 * n < 10

\* C3: the program of a valid CV holds exactly one meas_loop_cv line; its
\* literals are Eini, Ev1, Ev2, dE, sr in milli-units with suffix m, in this
\* order, then nscans(nSweeps - 1).  Eini=-0.2, Ev1=0.2, Ev2=-0.2, sr=0.1,
\* dE=0.001, nSweeps=2 give -200m 200m -200m 1m 100m nscans(1).
C3_OneSweepLoop ==
    (call.op = "CV" /\ call.raised = "none") =>
        LET a == call.args
            l == TheLoop(tech.text)
        IN  /\ Cardinality(LoopIdx(tech.text)) = 1
            /\ Len(l) = 9
            /\ SubSeq(l, 1, 3) = <<"meas_loop_cv", "p", "c">>
            /\ InMilli(l[4], a.Eini)
            /\ InMilli(l[5], a.Ev1)
            /\ InMilli(l[6], a.Ev2)
            /\ InMilli(l[7], a.dE)
            /\ InMilli(l[8], a.sr)
            /\ l[9] = "nscans(" \o ToString(a.nSweeps - 1) \o ")"
            /\ (/\ a.Eini = -2000 /\ a.Ev1 = 2000 /\ a.Ev2 = -2000
                /\ a.sr = 1000 /\ a.dE = 10 /\ a.nSweeps = 2) =>
                    l = <<"meas_loop_cv", "p", "c", "-200m", "200m", "-200m", "1m",
                          "100m", "nscans(1)">>

\* the CV of the scenario was generated
C3_Witness ==
    /\ call.op = "CV"
    /\ call.raised = "none"
    /\ call.args = [Eini |-> -2000, Ev1 |-> 2000, Ev2 |-> -2000, Efin |-> -2000,
                    sr |-> 1000, dE |-> 10, nSweeps |-> 2]
    /\ TheLoop(tech.text)[9] = "nscans(1)"

\* round(v*1000), ties to the even integer
round1000(v) ==
    LET q == v \div 10
        r == v % 10
    IN  IF r < 5 THEN q ELSE IF r > 5 THEN q + 1 ELSE IF q % 2 = 0 THEN q ELSE q + 1

rlit(v) == ToString(round1000(v)) \o "m"

\* C4: every physical value v of a generated program appears as
\* round(v*1000) followed by m.
C4_LiteralsAreRounded ==
    LET a == call.args
    IN  /\ (call.op = "CV" /\ call.raised = "none") =>
            /\ tech.pre_body[3] = <<"set_e", rlit(a.Eini)>>
            /\ SubSeq(TheLoop(tech.text), 4, 8)
                = <<rlit(a.Eini), rlit(a.Ev1), rlit(a.Ev2), rlit(a.dE), rlit(a.sr)>>
        /\ (call.op = "LSV" /\ call.raised = "none") =>
            /\ tech.pre_body[3] = <<"set_e", rlit(a.Eini)>>
            /\ SubSeq(TheLoop(tech.text), 4, 7)
                = <<rlit(a.Eini), rlit(a.Efin), rlit(a.dE), rlit(a.sr)>>
        /\ (call.op = "CA" /\ call.raised = "none") =>
            /\ tech.pre_body[3] = <<"set_e", rlit(a.Estep)>>
            /\ SubSeq(TheLoop(tech.text), 4, 6) = <<rlit(a.Estep), rlit(a.dt), rlit(a.ttot)>>
        /\ (call.op = "OCP" /\ call.raised = "none") =>
            SubSeq(TheLoop(tech.text), 3, 4) = <<rlit(a.dt), rlit(a.ttot)>>
        /\ (call.op = "bipot" /\ call.raised = "none") =>
            tech.pre_body[5] = <<"set_e", rlit(a.E)>>

\* the parameters of a loop line: what follows the variables p c, less the
\* poly_we(1 b) option
LoopParams(l) ==
    SelectSeq(SubSeq(l, 4, Len(l)), LAMBDA t : t \notin {"poly_we(1", "b)"})

\* the tags of the pck_add lines, in order
PacketTags(text) ==
    LET adds == SelectSeq(text, LAMBDA l : Len(l) = 2 /\ l[1] = "pck_add")
    IN  [i \in 1..Len(adds) |-> adds[i][2]]

\* C5: for a CV, CA or LSV and an in-range second potential, bipot produces
\* a program whose loop line carries the parameter literals of the base
\* program's loop line (for CV with the same nscans(nSweeps - 1)) and whose
\* packet holds the tags a, p, c of the base program, then b.
C5_BipotKeepsLoop ==
    (/\ call.op = "bipot"
     /\ call.args.kind \in {"CV", "CA", "LSV"}
     /\ ~OutsideEnvelope(call.args.E)) =>
        /\ call.raised = "none"
        /\ LoopParams(TheLoop(tech.text)) = LoopParams(TheLoop(base))
        /\ PacketTags(base) = <<"a", "p", "c">>
        /\ PacketTags(tech.text) = <<"a", "p", "c", "b">>

\* t holds a dual-channel program with channel 1 at int(E*1000) mV
DualChannel(t, E) ==
    /\ SubSeq(t.pre_body, 1, 4) = << <<"var", "b">>, <<"set_pgstat_chan", "1">>,
                                     <<"set_pgstat_mode", "5">>, <<"set_poly_we_mode", "0">> >>
    /\ t.pre_body[5] = <<"set_e", lit(int1000(E))>>
    /\ PacketTags(t.text) = <<"a", "p", "c", "b">>
    /\ t.text = t.ini \o t.pre_body \o t.body

\* C7: bipot of a CV, CA or LSV raises the out-of-range exception for E2 if
\* and only if E2 is outside [-1.7 V, 2 V], and otherwise leaves the
\* dual-channel program.
C7_BipotValidatesSecondPotential ==
    (call.op = "bipot" /\ call.args.kind \in {"CV", "CA", "LSV"}) =>
        IF OutsideEnvelope(call.args.E)
        THEN call.raised = "Exception" /\ call.label = "E2"
        ELSE call.raised = "none" /\ DualChannel(tech, call.args.E)

(***************************************************************************)
(* Properties of the dispatcher (checked under SpecDispatch)               *)
(***************************************************************************)
Events(kinds) == {i \in 1..Len(log) : log[i].ev \in kinds}

Unsupported(self) == <<self.technique \o " does not have bipotentiostat mode">>

\* a bipot request on a technique whose tag is outside accepted was reported
\* and changed nothing, and the technique can be run
RefusedCleanly(accepted) ==
    (dcall.op = "bipot" /\ dcall.before.technique \notin accepted) =>
        /\ dcall.raised = "none"
        /\ dcall.printed = Unsupported(dcall.before)
        /\ obj = dcall.before
        /\ obj.text = dcall.before.text
        /\ obj.bpot = FALSE
        /\ pc \in Resting

TechniqueTags == TechniqueClasses \cup {"Technique"}

\* C6 as stated: bipot accepts no technique tag outside {CV, IT, CA, LSV},
\* and a request on a technique outside that set is reported, not fatal,
\* leaves text and flag, and the technique can still be run.
C6_AcceptedOnlyForCvItLsv ==
    /\ \A k \in TechniqueTags \ {"CV", "IT", "CA", "LSV"} : k \notin BIPOT_TECHNIQUES
    /\ RefusedCleanly({"CV", "IT", "CA", "LSV"})

\* C6 amended: the same with the set {CV, CA, IT, LSV, NPV}.
C6_AcceptedOnlyForListed ==
    /\ \A k \in TechniqueTags \ {"CV", "CA", "IT", "LSV", "NPV"} : k \notin BIPOT_TECHNIQUES
    /\ RefusedCleanly({"CV", "CA", "IT", "LSV", "NPV"})

\* a bipot request was refused on a technique that holds a script
C6_Witness ==
    /\ dcall.op = "bipot"
    /\ dcall.before.technique \notin {"CV", "CA", "IT", "LSV", "NPV"}
    /\ dcall.printed = Unsupported(dcall.before)
    /\ obj.text = << <<"e">> >>
    /\ obj.bpot = FALSE

\* C8: a technique class constructed on an instrument that has it, with
\* valid parameters, yields an object with the caller's header, the tag of
\* the class and the flag false; bipot with an in-range potential on a CV,
\* IT or LSV so constructed sets the flag and the dual-channel text; and the
\* result saved carries the caller's header, the tag of the class and the
\* flag.
C8_ResultCarriesHeaderTagFlag ==
    /\ (/\ dcall.op \in {"CV", "LSV", "IT", "OCP"}
        /\ inst.model_pstat = "emstatpico"
        /\ \A f \in DOMAIN dcall.args.p : ~OutsideEnvelope(dcall.args.p[f])) =>
            /\ dcall.raised = "none"
            /\ obj.header = dcall.args.header
            /\ obj.technique = dcall.op
            /\ obj.bpot = FALSE
    /\ (/\ dcall.op = "bipot"
        /\ dcall.before.made.class \in {"CV", "IT", "LSV"}
        /\ ~OutsideEnvelope(dcall.args.E)) =>
            /\ obj.bpot = TRUE
            /\ obj.text = obj.tech.text
            /\ PacketTags(obj.text) = <<"a", "p", "c", "b">>
    /\ \A i \in Events({"save"}) :
            /\ log[i].header = obj.made.header
            /\ log[i].technique = obj.made.class
            /\ log[i].bpot = obj.bpot

\* C9: a script is written or sent only if its parameters were validated and
\* it was generated; the response is decoded only after the script was sent
\* and the response read; the result is saved and plotted only after decoding.
C9_StagesInOrder ==
    /\ \A i \in Events({"write", "system", "send"}) : obj.made.generated
    /\ \A i \in Events({"decode"}) :
            \E j, k \in 1..(i - 1) : j < k /\ log[j].ev = "send" /\ log[k].ev = "read"
    /\ \A i \in Events({"save", "plot"}) :
            \E j \in 1..(i - 1) : log[j].ev = "decode"

\* C10: when the transport raised while the script was sent or the response
\* read, the run has failed with that very exception, the script was sent at
\* most once, nothing was decoded, saved or plotted, and run() does nothing
\* more.
C10_TransportFailureEndsRun ==
    /\ Cardinality(Events({"send"})) <= 1
    /\ \A i \in Events({"error"}) :
            /\ i = Len(log)
            /\ pc = "failed"
            /\ run.raised = log[i].exc
            /\ Events({"decode", "save", "plot"}) = {}
            /\ obj.data = run.start.data
    /\ pc = "failed" => Events({"error"}) # {}

\* the response could not be read after the script had been sent
C10_Witness ==
    /\ pc = "failed"
    /\ Len(log) = 3
    /\ log[2].ev = "send"
    /\ log[3] = [ev |-> "error", exc |-> "SerialTimeoutException"]
    /\ run.raised = "SerialTimeoutException"

\* the instrument model has no generator for the class: the class has no
\* emstatpico branch, or the model is neither a chi model nor emstatpico
NoMapping(kind, model) ==
    \/ model = "emstatpico" /\ kind \in {"CA", "NPV", "EIS"}
    \/ model \notin {"chi760e", "emstatpico"}

\* C11: constructing a technique class on an instrument model that has no
\* generator for it raises the exception "Potentiostat model ... does not
\* have ...", leaves the caller no technique object, and nothing is written
\* or dispatched; on a model that is neither a chi model nor emstatpico, run()
\* writes and dispatches nothing.
C11_UnsupportedTechniqueIsFatal ==
    /\ (dcall.op \in TechniqueClasses /\ NoMapping(dcall.op, inst.model_pstat)) =>
            /\ dcall.raised = "Exception"
            /\ obj = NoObj
            /\ log = <<>>
            /\ pc = "idle"
    /\ inst.model_pstat \notin {"none", "chi760e", "emstatpico"} =>
            Events({"write", "system", "send"}) = {}

\* C12: a CV from which a program was generated has its four potentials
\* inside [-1.7 V, 2 V] and a sweep count of at least one, and the scan count
\* of its loop line, nSweeps - 1, is not negative.
C12_GeneratedCvIsWellFormed ==
    (call.op = "CV" /\ call.raised = "none") =>
        /\ \A f \in PotentialFields("CV") : ~OutsideEnvelope(call.args[f])
        /\ call.args.nSweeps >= 1
        /\ TheLoop(tech.text)[9]
               \in {"nscans(" \o ToString(n) \o ")" : n \in 0..MaxSweeps}

\* A dispatcher object on the EmStat Pico that holds the technique object t,
\* its text and the tag of its class (IT for class CA of emstatpico.py): the
\* capable technique on which Technique.bipot is requested.
AsDispatched(t) ==
    SetAttrs(Technique_init(NewObject, SetupInstrument_init("emstatpico", "COM3"),
                            t.text, "f",
                            [class |-> t.kind, header |-> "", generated |-> TRUE]),
             [technique |-> IF t.kind = "CA" THEN "IT" ELSE t.kind, tech |-> t])

\* the call with outcome r raised the out-of-range exception and left self
\* as it was, so run() would write the same file
FrameKept(self, r) ==
    /\ r.raised = "Exception"
    /\ r.label = "E2"
    /\ r.self = self
    /\ r.self.text = self.text
    /\ r.self.bpot = self.bpot
    /\ r.self.bpot = FALSE
    /\ writeToFile(r.self) = writeToFile(self)

\* C13: bipot of a CV or CA with a second potential outside [-1.7 V, 2 V]
\* raises the out-of-range exception and leaves the technique object (its
\* preamble, loop body and text) exactly as it was before the call; and
\* Technique.bipot on a dispatcher object holding that technique raises the
\* same exception and leaves the object, its text and its flag (false) as
\* they were.
C13_FailedBipotChangesNothing ==
    (/\ call.op = "bipot"
     /\ call.args.kind \in {"CV", "CA"}
     /\ OutsideEnvelope(call.args.E)) =>
        /\ call.raised = "Exception"
        /\ tech = call.before
        /\ tech.pre_body = call.before.pre_body
        /\ tech.body = call.before.body
        /\ tech.text = call.before.text
        /\ FrameKept(AsDispatched(call.before),
                     Technique_bipot(AsDispatched(call.before), call.args.E))

\* a CA refused the second potential E_max + 0.001 and still holds the
\* program its constructor generated
C13_Witness ==
    /\ call.op = "bipot"
    /\ call.args.kind = "CA"
    /\ call.args.E = 20010
    /\ call.raised = "Exception"
    /\ tech.text = base
    /\ PacketTags(tech.text) = <<"a", "p", "c">>

====
